---- MODULE Spec2Model ----
(***************************************************************************)
(* State-machine model of D3D9CommonTexture (src/d3d9/d3d9_common_texture.h)*)
(* One texture resource: its description, mapping mode, backing image,     *)
(* resolve image, per-subresource mapping / fixup buffers, lock flags and  *)
(* the cached view set; and the creation of such a resource from a         *)
(* requested description (normalisation, backing image, initial views).    *)
(*                                                                         *)
(* Rc<> handles are compared by the code only for equality and for null.   *)
(* A buffer handle is modelled by the identity of the object it refers to; *)
(* two live objects always have different identities.  Null is nullptr.    *)
(***************************************************************************)
EXTENDS Integers, FiniteSets, Sequences, TLC

\* ---------------------------------------------------------------- bounds
\* capacity of D3D9SubresourceArray in the model (caps::MaxSubresources)
MaxSubresources == 4
\* largest ArraySize / MipLevels of a description drawn by Init
MaxArraySize == 2
MaxMipLevels == 2
\* number of distinct image objects the device can hand out
MaxImages == 3
\* saturation value of the history counters
MaxCount == 2
\* largest small width and height, and largest depth, of a requested description
MaxExtent == 3
MaxDepth == 2

\* ------------------------------------------------------------- constants
Null == 0

\* D3D9_COMMON_TEXTURE_MAP_MODE
D3D9_COMMON_TEXTURE_MAP_MODE_NONE == "NONE"
D3D9_COMMON_TEXTURE_MAP_MODE_BACKED == "BACKED"
D3D9_COMMON_TEXTURE_MAP_MODE_SYSTEMMEM == "SYSTEMMEM"

MapModes ==
  { D3D9_COMMON_TEXTURE_MAP_MODE_NONE,
    D3D9_COMMON_TEXTURE_MAP_MODE_BACKED,
    D3D9_COMMON_TEXTURE_MAP_MODE_SYSTEMMEM }

\* the D3D9Format values the header distinguishes, and one ordinary format
Formats == { "NULL_FORMAT", "R8G8B8", "A8R8G8B8" }

\* D3DPOOL
Pools == { "D3DPOOL_DEFAULT", "D3DPOOL_MANAGED", "D3DPOOL_SYSTEMMEM", "D3DPOOL_SCRATCH" }

\* D3D9_COMMON_TEXTURE_DESC::Usage as the set of its flags
\* (D3DUSAGE_RENDERTARGET, D3DUSAGE_DEPTHSTENCIL, D3DUSAGE_AUTOGENMIPMAP)
Usages == { {}, { "RENDERTARGET" }, { "DEPTHSTENCIL" }, { "AUTOGENMIPMAP" } }

\* D3D9_COMMON_TEXTURE_DESC (the members the modelled operations read) of the
\* resources whose life is explored: those of D3DPOOL_DEFAULT are render
\* targets, the others are plain textures
Descs ==
  { d \in [ Format : Formats, Pool : Pools, Usage : Usages,
            ArraySize : 1..MaxArraySize, MipLevels : 1..MaxMipLevels ] :
      /\ d.ArraySize * d.MipLevels <= MaxSubresources
      /\ d.Usage = (IF d.Pool = "D3DPOOL_DEFAULT" THEN { "RENDERTARGET" } ELSE {}) }

\* the DWORD lock-flag words passed to SetLockFlags: no flag, D3DLOCK_READONLY
\* (the resource stores the word and never interprets it)
LockFlagWords == { 0, 16 }

\* index set of a D3D9SubresourceArray
Slots == 0..(MaxSubresources - 1)

Min(a, b) == IF a < b THEN a ELSE b

Bump(c) == Min(c + 1, MaxCount)

VARIABLES
  m_desc,          \* D3D9_COMMON_TEXTURE_DESC
  m_mapMode,       \* D3D9_COMMON_TEXTURE_MAP_MODE
  m_image,         \* Rc<DxvkImage>
  m_resolveImage,  \* Rc<DxvkImage>
  m_buffers,       \* D3D9SubresourceArray<Rc<DxvkBuffer>>
  m_fixupBuffers,  \* D3D9SubresourceArray<Rc<DxvkBuffer>>
  m_lockFlags,     \* D3D9SubresourceArray<DWORD>
  m_views,         \* D3D9ViewSet
  imageTiling,     \* m_image->info().tiling
  request,         \* the description, resource kind and device support a creation is asked with
  hr,              \* outcome of the creation
  lastCall,        \* the last operation called and what it returned
  createdSince,    \* per slot: CreateBufferSubresource called since the last destroy
  allocCount,      \* per slot: buffer allocations since the last destroy
  resolveBuilds,   \* successful CreateResolveImage calls
  firstResolve,    \* the first handle GetResolveImage returned
  callers,         \* per caller of GetResolveImage: its position, the image it built, what it returned
  overlapped,      \* two callers have been inside GetResolveImage at the same time
  m_mode,          \* HudRenderer::Mode
  m_vertexOffset,  \* VkDeviceSize
  m_surfaceSize,   \* VkExtent2D
  m_context,       \* Rc<DxvkContext>: what is bound on the context the renderer records to
  slices,          \* the slices allocVertexBuffer returned since the vertex buffer was last invalidated
  lastDraw         \* the last call on the renderer: its request and the commands it recorded

vars ==
  << m_desc, m_mapMode, m_image, m_resolveImage, m_buffers, m_fixupBuffers,
     m_lockFlags, m_views, imageTiling, request, hr, lastCall, createdSince,
     allocCount, resolveBuilds, firstResolve, callers, overlapped,
     m_mode, m_vertexOffset, m_surfaceSize, m_context, slices, lastDraw >>

\* what no operation on a constructed resource writes
creationVars == << imageTiling, request, hr >>

\* the callers that run GetResolveImage with no synchronization
callerVars == << callers, overlapped >>

\* the HUD renderer
hudVars == << m_mode, m_vertexOffset, m_surfaceSize, m_context, slices, lastDraw >>

\* the texture resource
textureVars ==
  << m_desc, m_mapMode, m_image, m_resolveImage, m_buffers, m_fixupBuffers,
     m_lockFlags, m_views, lastCall, createdSince, allocCount, resolveBuilds,
     firstResolve >>

\* what the operations of the single-context lifecycle leave alone
otherVars == << creationVars, callerVars, hudVars >>

Callers == 1 .. 2

\* a caller outside GetResolveImage
Outside == [ pc |-> "outside", image |-> Null, ret |-> Null ]

NoCallers ==
  /\ callers = [ t \in Callers |-> Outside ]
  /\ overlapped = FALSE

\* ---- HudRenderer: construction

NoContext == [ shaders |-> "null" ]

NoSlice == [ offset |-> 0, length |-> 0 ]

HudCall(op, dataSize, before, slice, commands) ==
  [ op |-> op, dataSize |-> dataSize, before |-> before, slice |-> slice,
    commands |-> commands ]

\* HudRenderer::HudRenderer(const Rc<DxvkDevice>& device)
HudRenderer ==
  /\ m_mode = "RenderNone"
  /\ m_vertexOffset = 0
  /\ m_surfaceSize = << 0, 0 >>
  /\ m_context = NoContext
  /\ slices = {}
  /\ lastDraw = HudCall("HudRenderer", 0, 0, NoSlice, << >>)

\* ------------------------------------------------------- pure operations

\* UINT arithmetic: the products stay below the capacity of a subresource
\* array, far from the 32-bit wrap
CountSubresources(desc) == desc.ArraySize * desc.MipLevels

Subresources(desc) == 0..(CountSubresources(desc) - 1)

\* variant: the pool is tested before the placeholder format
DetermineMapMode_PoolFirst(desc) ==
  IF desc.Pool = "D3DPOOL_SYSTEMMEM" \/ desc.Pool = "D3DPOOL_SCRATCH"
    THEN D3D9_COMMON_TEXTURE_MAP_MODE_SYSTEMMEM
    ELSE IF desc.Format = "NULL_FORMAT"
      THEN D3D9_COMMON_TEXTURE_MAP_MODE_NONE
      ELSE D3D9_COMMON_TEXTURE_MAP_MODE_BACKED

\* variant: D3DPOOL_SCRATCH is not tested
DetermineMapMode_NoScratch(desc) ==
  IF desc.Format = "NULL_FORMAT"
    THEN D3D9_COMMON_TEXTURE_MAP_MODE_NONE
    ELSE IF desc.Pool = "D3DPOOL_SYSTEMMEM"
      THEN D3D9_COMMON_TEXTURE_MAP_MODE_SYSTEMMEM
      ELSE D3D9_COMMON_TEXTURE_MAP_MODE_BACKED

DetermineMapMode(desc) ==
  IF desc.Format = "NULL_FORMAT"
    THEN D3D9_COMMON_TEXTURE_MAP_MODE_NONE
    ELSE IF desc.Pool = "D3DPOOL_SYSTEMMEM" \/ desc.Pool = "D3DPOOL_SCRATCH"
      THEN D3D9_COMMON_TEXTURE_MAP_MODE_SYSTEMMEM
      ELSE D3D9_COMMON_TEXTURE_MAP_MODE_BACKED

\* variant: every format but the ordinary one needs a fixup
RequiresFixup_NotOrdinary(desc) == desc.Format # "A8R8G8B8"

RequiresFixup(desc) == desc.Format = "R8G8B8"

\* variant: the face stride is the array size
CalcSubresource_ArrayStride(desc, Face, MipLevel) ==
  Face * desc.ArraySize + MipLevel

CalcSubresource(desc, Face, MipLevel) ==
  Face * desc.MipLevels + MipLevel

\* GetExtentMip: the mip level of a subresource index
MipLevelOf(desc, Subresource) == Subresource % desc.MipLevels

\* GetSubresourceFromIndex: the mip level and array layer of an index
GetSubresourceFromIndex(desc, Subresource) ==
  [ mipLevel |-> Subresource % desc.MipLevels,
    arrayLayer |-> Subresource \div desc.MipLevels ]

IsManaged(desc) == desc.Pool = "D3DPOOL_MANAGED"

\* variant: the mode is derived from the presence of the image
GetMapMode_FromImage ==
  IF m_image # Null THEN D3D9_COMMON_TEXTURE_MAP_MODE_BACKED
                    ELSE D3D9_COMMON_TEXTURE_MAP_MODE_SYSTEMMEM

\* D3D9_COMMON_TEXTURE_MAP_MODE GetMapMode() const
GetMapMode == m_mapMode

GetMappingBuffer(buffers, Subresource) == buffers[Subresource]

\* variant: the mapping buffer is returned whatever the format
GetCopyBuffer_Mapping(desc, buffers, fixupBuffers, Subresource) ==
  buffers[Subresource]

GetCopyBuffer(desc, buffers, fixupBuffers, Subresource) ==
  IF RequiresFixup(desc)
    THEN fixupBuffers[Subresource]
    ELSE buffers[Subresource]

\* ------------------------------------------------------------- the device

\* Device::createBuffer: a new buffer object.  The object allocated for a
\* slot is named after the slot and its role, so that it differs from every
\* other live buffer object.
createBuffer(Subresource, fixup) ==
  2 * Subresource + (IF fixup THEN 2 ELSE 1)

\* the image objects the device can hand out
Images == 1..MaxImages

\* Rc<DxvkImageView> CreateView(FormatInfo, Layer, UsageFlags, Lod, Srgb): a
\* view of the image over the given layer (or all layers) and the mip levels
\* [Lod, MipLevels)
CreateView(desc, image, Layer, UsageFlags, Lod, Srgb) ==
  [ image |-> image, Layer |-> Layer, Usage |-> UsageFlags,
    Lod |-> Lod, NumLevels |-> desc.MipLevels - Lod, Srgb |-> Srgb ]

\* D3D9ColorView CreateColorViewPair(FormatInfo, Layer, UsageFlags, Lod): the
\* colour view and its sRGB twin over the same range of the image
CreateColorViewPair(desc, image, Layer, UsageFlags, Lod) ==
  [ Color |-> CreateView(desc, image, Layer, UsageFlags, Lod, FALSE),
    Srgb  |-> CreateView(desc, image, Layer, UsageFlags, Lod, TRUE) ]

\* UINT32_MAX, written as the 32-bit two's complement value
AllLayers == -1

\* a null Rc<DxvkImageView>
NullView == [ image |-> Null ]

NoColorView == [ Color |-> NullView, Srgb |-> NullView ]

\* index set of the per-face arrays of D3D9ViewSet
FaceSlots == 0..5

\* a default-constructed D3D9ViewSet
NoViews ==
  [ Sample |-> NoColorView,
    MipGenRT |-> NullView,
    FaceSample |-> [ i \in FaceSlots |-> NoColorView ],
    FaceRenderTarget |-> [ i \in FaceSlots |-> NoColorView ],
    FaceDepth |-> [ i \in FaceSlots |-> NullView ] ]

\* void CreateInitialViews(): the default sample view over all layers, the
\* mip-generation view, and for every face of the resource its sample views,
\* its render-target views and its depth view as the usage asks
CreateInitialViews(desc, image) ==
  [ Sample |-> CreateColorViewPair(desc, image, AllLayers, "SAMPLED", 0),
    MipGenRT |->
      IF "AUTOGENMIPMAP" \in desc.Usage
        THEN CreateView(desc, image, AllLayers, "COLOR_ATTACHMENT", 0, FALSE)
        ELSE NullView,
    FaceSample |->
      [ i \in FaceSlots |->
          IF i < desc.ArraySize
            THEN CreateColorViewPair(desc, image, i, "SAMPLED", 0)
            ELSE NoColorView ],
    FaceRenderTarget |->
      [ i \in FaceSlots |->
          IF i < desc.ArraySize /\ "RENDERTARGET" \in desc.Usage
            THEN CreateColorViewPair(desc, image, i, "COLOR_ATTACHMENT", 0)
            ELSE NoColorView ],
    FaceDepth |->
      [ i \in FaceSlots |->
          IF i < desc.ArraySize /\ "DEPTHSTENCIL" \in desc.Usage
            THEN CreateView(desc, image, i, "DEPTH_STENCIL_ATTACHMENT", 0, FALSE)
            ELSE NullView ] ]

\* ------------------------------------------------------------ buffer state

\* the part of the resource the buffer operations read and write
BufferState ==
  [ buffers |-> m_buffers, fixupBuffers |-> m_fixupBuffers,
    createdSince |-> createdSince, allocCount |-> allocCount,
    allocated |-> FALSE ]

\* variant: no early return when the buffers exist
CreateBufferSubresourceOp_Always(desc, st, Subresource) ==
  [ st EXCEPT
      !.buffers[Subresource] = createBuffer(Subresource, FALSE),
      !.fixupBuffers[Subresource] =
         IF RequiresFixup(desc) THEN createBuffer(Subresource, TRUE) ELSE @,
      !.createdSince[Subresource] = TRUE,
      !.allocCount[Subresource] = Bump(@),
      !.allocated = TRUE ]

\* variant: the fixup buffer is allocated whatever the format
CreateBufferSubresourceOp_FixupAlways(desc, st, Subresource) ==
  IF st.buffers[Subresource] # Null
    THEN [ st EXCEPT !.createdSince[Subresource] = TRUE,
                     !.allocated = FALSE ]
    ELSE [ st EXCEPT
             !.buffers[Subresource] = createBuffer(Subresource, FALSE),
             !.fixupBuffers[Subresource] = createBuffer(Subresource, TRUE),
             !.createdSince[Subresource] = TRUE,
             !.allocCount[Subresource] = Bump(@),
             !.allocated = TRUE ]

\* bool CreateBufferSubresource(UINT Subresource)
CreateBufferSubresourceOp(desc, st, Subresource) ==
  IF st.buffers[Subresource] # Null
    THEN [ st EXCEPT !.createdSince[Subresource] = TRUE,
                     !.allocated = FALSE ]
    ELSE [ st EXCEPT
             !.buffers[Subresource] = createBuffer(Subresource, FALSE),
             !.fixupBuffers[Subresource] =
                IF RequiresFixup(desc)
                  THEN createBuffer(Subresource, TRUE)
                  ELSE @,
             !.createdSince[Subresource] = TRUE,
             !.allocCount[Subresource] = Bump(@),
             !.allocated = TRUE ]

\* the loop of CreateBuffers, from index i up to count
RECURSIVE CreateBuffersLoop(_, _, _, _)
CreateBuffersLoop(desc, st, i, count) ==
  IF i < count
    THEN CreateBuffersLoop(desc, CreateBufferSubresourceOp(desc, st, i), i + 1, count)
    ELSE st

\* variant: the loop starts at index 1
CreateBuffersOp_FromOne(desc, st) ==
  CreateBuffersLoop(desc, st, 1, CountSubresources(desc))

\* void CreateBuffers()
CreateBuffersOp(desc, st) ==
  CreateBuffersLoop(desc, st, 0, CountSubresources(desc))

\* variant: the fixup buffer is kept
DestroyBufferSubresourceOp_KeepFixup(st, Subresource) ==
  [ st EXCEPT !.buffers[Subresource] = Null,
              !.createdSince[Subresource] = FALSE,
              !.allocCount[Subresource] = 0 ]

\* variant: only the fixup buffer is released
DestroyBufferSubresourceOp_KeepMapping(st, Subresource) ==
  [ st EXCEPT !.fixupBuffers[Subresource] = Null,
              !.createdSince[Subresource] = FALSE,
              !.allocCount[Subresource] = 0 ]

\* void DestroyBufferSubresource(UINT Subresource)
DestroyBufferSubresourceOp(st, Subresource) ==
  [ st EXCEPT !.buffers[Subresource] = Null,
              !.fixupBuffers[Subresource] = Null,
              !.createdSince[Subresource] = FALSE,
              !.allocCount[Subresource] = 0 ]

\* the operation called last, whether it reported an allocation, and a
\* handle: the image GetResolveImage returned, the mapping buffer
\* DestroyBufferSubresource released, the mapping buffer the call before
\* CreateBufferSubresource had released from the slot
Call(op, allocated, handle) ==
  [ op |-> op, allocated |-> allocated, handle |-> handle, view |-> NoColorView ]

\* ------------------------------------------------------------ construction

\* VkImageTiling of an image, and the value standing for "no image"
Tilings == { "VK_IMAGE_TILING_OPTIMAL", "VK_IMAGE_TILING_LINEAR" }

NoTiling == "none"

\* the request of a resource that was not created through CreateTexture
NoRequest == [ desc |-> "none" ]

\* Rc<DxvkImage> CreatePrimaryImage(ResourceType): the image object of the
\* resource
CreatePrimaryImage == 1

\* the members after construction of a resource with description desc whose
\* image is image; the arrays and Rc<> members are default-constructed
Members(desc, image) ==
  [ desc |-> desc,
    mapMode |-> DetermineMapMode(desc),
    image |-> image,
    resolveImage |-> Null,
    buffers |-> [ i \in Slots |-> Null ],
    fixupBuffers |-> [ i \in Slots |-> Null ],
    lockFlags |-> [ i \in Slots |-> 0 ],
    views |-> IF image # Null THEN CreateInitialViews(desc, image) ELSE NoViews ]

\* the state of a resource constructed with description desc and image image
Constructed(desc, image) ==
  LET m == Members(desc, image) IN
    /\ m_desc = m.desc
    /\ m_mapMode = m.mapMode
    /\ m_image = m.image
    /\ m_resolveImage = m.resolveImage
    /\ m_buffers = m.buffers
    /\ m_fixupBuffers = m.fixupBuffers
    /\ m_lockFlags = m.lockFlags
    /\ m_views = m.views

\* variant: only a BACKED resource gets an image
Construct_BackedOnly(desc) ==
  Constructed(desc,
    IF DetermineMapMode(desc) = D3D9_COMMON_TEXTURE_MAP_MODE_BACKED
      THEN CreatePrimaryImage ELSE Null)

\* D3D9CommonTexture::D3D9CommonTexture: the image and the initial views
\* are built unless the resource lives in system memory only
Construct(desc) ==
  Constructed(desc,
    IF DetermineMapMode(desc) # D3D9_COMMON_TEXTURE_MAP_MODE_SYSTEMMEM
      THEN CreatePrimaryImage ELSE Null)

\* a resource constructed on a device that supports optimal tiling
Init ==
  /\ \E desc \in Descs : Construct(desc)
  /\ imageTiling = IF m_image # Null THEN "VK_IMAGE_TILING_OPTIMAL" ELSE NoTiling
  /\ request = NoRequest
  /\ hr = "S_OK"
  /\ lastCall = Call("Construct", FALSE, Null)
  /\ createdSince = [ i \in Slots |-> FALSE ]
  /\ allocCount = [ i \in Slots |-> 0 ]
  /\ resolveBuilds = 0
  /\ firstResolve = Null
  /\ NoCallers
  /\ HudRenderer

\* ----------------------------------------------------------------- actions

SetBufferState(st) ==
  /\ m_buffers' = st.buffers
  /\ m_fixupBuffers' = st.fixupBuffers
  /\ createdSince' = st.createdSince
  /\ allocCount' = st.allocCount

CreateBufferSubresource(Subresource) ==
  LET st == CreateBufferSubresourceOp(m_desc, BufferState, Subresource) IN
    /\ SetBufferState(st)
    /\ lastCall' = Call("CreateBufferSubresource", st.allocated,
                        IF /\ lastCall.op = "DestroyBufferSubresource"
                           /\ lastCall.handle = createBuffer(Subresource, FALSE)
                          THEN lastCall.handle ELSE Null)
    /\ UNCHANGED << m_desc, m_mapMode, m_image, m_resolveImage, m_lockFlags,
                    m_views, resolveBuilds, firstResolve >>
    /\ UNCHANGED otherVars

CreateBuffers ==
  /\ SetBufferState(CreateBuffersOp(m_desc, BufferState))
  /\ lastCall' = Call("CreateBuffers", FALSE, Null)
  /\ UNCHANGED << m_desc, m_mapMode, m_image, m_resolveImage, m_lockFlags,
                  m_views, resolveBuilds, firstResolve >>
  /\ UNCHANGED otherVars

DestroyBufferSubresource(Subresource) ==
  /\ SetBufferState(DestroyBufferSubresourceOp(BufferState, Subresource))
  /\ lastCall' = Call("DestroyBufferSubresource", FALSE, m_buffers[Subresource])
  /\ UNCHANGED << m_desc, m_mapMode, m_image, m_resolveImage, m_lockFlags,
                  m_views, resolveBuilds, firstResolve >>
  /\ UNCHANGED otherVars

SetLockFlags(Subresource, Flags) ==
  /\ m_lockFlags' = [ m_lockFlags EXCEPT ![Subresource] = Flags ]
  /\ lastCall' = Call("SetLockFlags", FALSE, Null)
  /\ UNCHANGED << m_desc, m_mapMode, m_image, m_resolveImage, m_buffers,
                  m_fixupBuffers, m_views, createdSince, allocCount,
                  resolveBuilds, firstResolve >>
  /\ UNCHANGED otherVars

\* Rc<DxvkImage> CreateResolveImage() const: a new image object with the info
\* of m_image and one sample; handles are opaque, the new object gets the
\* lowest one no image of the resource has had
CreateResolveImage ==
  LET unused == Images \ { m_image, m_resolveImage, firstResolve } IN
    { h \in unused : \A g \in unused : h <= g }

\* variant: the cached image is not tested
GetResolveImage_NoCache ==
  /\ m_image # Null
  /\ \E built \in CreateResolveImage :
       /\ m_resolveImage' = built
       /\ resolveBuilds' = Bump(resolveBuilds)
       /\ firstResolve' = IF firstResolve = Null THEN built ELSE firstResolve
       /\ lastCall' = Call("GetResolveImage", TRUE, built)
  /\ UNCHANGED << m_desc, m_mapMode, m_image, m_buffers, m_fixupBuffers,
                  m_lockFlags, m_views, createdSince, allocCount >>
  /\ UNCHANGED otherVars

\* variant: a failed construction falls back to the primary image
GetResolveImageThrows_Fallback ==
  /\ m_image # Null
  /\ m_resolveImage = Null
  /\ m_resolveImage' = m_image
  /\ lastCall' = Call("GetResolveImageThrows", FALSE, Null)
  /\ UNCHANGED << m_desc, m_mapMode, m_image, m_buffers, m_fixupBuffers,
                  m_lockFlags, m_views, createdSince, allocCount,
                  resolveBuilds, firstResolve >>
  /\ UNCHANGED otherVars

\* Rc<DxvkImage> GetResolveImage() when CreateResolveImage() throws: the
\* exception leaves the function before the assignment to m_resolveImage
GetResolveImageThrows ==
  /\ m_image # Null
  /\ m_resolveImage = Null
  /\ lastCall' = Call("GetResolveImageThrows", FALSE, Null)
  /\ UNCHANGED << m_desc, m_mapMode, m_image, m_resolveImage, m_buffers,
                  m_fixupBuffers, m_lockFlags, m_views, createdSince, allocCount,
                  resolveBuilds, firstResolve >>
  /\ UNCHANGED otherVars

\* Rc<DxvkImage> GetResolveImage()
GetResolveImage ==
  /\ m_image # Null
  /\ \E built \in (IF m_resolveImage = Null THEN CreateResolveImage ELSE { Null }) :
       LET result == IF m_resolveImage = Null THEN built ELSE m_resolveImage IN
         /\ m_resolveImage' = result
         /\ resolveBuilds' = IF m_resolveImage = Null
                               THEN Bump(resolveBuilds) ELSE resolveBuilds
         /\ firstResolve' = IF firstResolve = Null THEN result ELSE firstResolve
         /\ lastCall' = Call("GetResolveImage", m_resolveImage = Null, result)
  /\ UNCHANGED << m_desc, m_mapMode, m_image, m_buffers, m_fixupBuffers,
                  m_lockFlags, m_views, createdSince, allocCount >>
  /\ UNCHANGED otherVars

\* the call record of RecreateSampledView: view is what a holder of the pair
\* that was cached before the call sees in it after the call
SampledViewCall(view) ==
  [ Call("RecreateSampledView", FALSE, Null) EXCEPT !.view = view ]

\* variant: the operation tests the pool and does nothing unless it is managed
RecreateSampledView_ManagedOnly(Lod) ==
  /\ m_image # Null
  /\ m_views' = IF IsManaged(m_desc)
                  THEN [ m_views EXCEPT
                           !.Sample = CreateColorViewPair(m_desc, m_image, AllLayers,
                                                          "SAMPLED", Lod) ]
                  ELSE m_views
  /\ lastCall' = SampledViewCall(m_views.Sample)
  /\ UNCHANGED << m_desc, m_mapMode, m_image, m_resolveImage, m_buffers,
                  m_fixupBuffers, m_lockFlags, createdSince, allocCount,
                  resolveBuilds, firstResolve >>
  /\ UNCHANGED otherVars

\* variant: every sample view, the per-face ones included, is rebuilt at Lod
RecreateSampledView_AllSampleViews(Lod) ==
  /\ m_image # Null
  /\ m_views' = [ m_views EXCEPT
                    !.Sample = CreateColorViewPair(m_desc, m_image, AllLayers,
                                                   "SAMPLED", Lod),
                    !.FaceSample =
                       [ i \in FaceSlots |->
                           IF i < m_desc.ArraySize
                             THEN CreateColorViewPair(m_desc, m_image, i, "SAMPLED", Lod)
                             ELSE NoColorView ] ]
  /\ lastCall' = SampledViewCall(m_views.Sample)
  /\ UNCHANGED << m_desc, m_mapMode, m_image, m_resolveImage, m_buffers,
                  m_fixupBuffers, m_lockFlags, createdSince, allocCount,
                  resolveBuilds, firstResolve >>
  /\ UNCHANGED otherVars

\* void RecreateSampledView(UINT Lod): the assignment to m_views.Sample
\* drops the references to the old views, which stay as they are
RecreateSampledView(Lod) ==
  /\ m_image # Null
  /\ m_views' = [ m_views EXCEPT
                    !.Sample = CreateColorViewPair(m_desc, m_image, AllLayers,
                                                   "SAMPLED", Lod) ]
  /\ lastCall' = SampledViewCall(m_views.Sample)
  /\ UNCHANGED << m_desc, m_mapMode, m_image, m_resolveImage, m_buffers,
                  m_fixupBuffers, m_lockFlags, createdSince, allocCount,
                  resolveBuilds, firstResolve >>
  /\ UNCHANGED otherVars

Next ==
  \/ \E i \in Subresources(m_desc) : CreateBufferSubresource(i)
  \/ CreateBuffers
  \/ \E i \in Subresources(m_desc) : DestroyBufferSubresource(i)
  \/ \E i \in Subresources(m_desc), f \in LockFlagWords : SetLockFlags(i, f)
  \/ GetResolveImage
  \/ GetResolveImageThrows
  \/ \E lod \in 0..(m_desc.MipLevels - 1) : RecreateSampledView(lod)

Spec == Init /\ [][Next]_vars

\* ------------------------------------------------------ extents and layouts

\* VkExtent3D GetExtent() const
GetExtent(desc) ==
  [ width |-> desc.Width, height |-> desc.Height, depth |-> desc.Depth ]

\* one dimension of util::computeMipLevelExtent: max(1, size >> level)
MipDimension(size, level) ==
  IF size \div (2 ^ level) > 1 THEN size \div (2 ^ level) ELSE 1

\* util::computeMipLevelExtent(size, level)
computeMipLevelExtent(size, level) ==
  [ width |-> MipDimension(size.width, level),
    height |-> MipDimension(size.height, level),
    depth |-> MipDimension(size.depth, level) ]

\* variant: the subresource index is taken for the mip level
GetExtentMip_NoModulo(desc, Subresource) ==
  computeMipLevelExtent(GetExtent(desc), Subresource)

\* VkExtent3D GetExtentMip(UINT Subresource) const
GetExtentMip(desc, Subresource) ==
  computeMipLevelExtent(GetExtent(desc), Subresource % desc.MipLevels)

\* view->imageInfo() of a view of the image of the resource
imageInfo(view) == [ tiling |-> imageTiling ]

\* variant: the tiling of the image is not looked at
GetRTLayout_IgnoreTiling(views) ==
  IF views.FaceRenderTarget[0].Color # NullView
    THEN "VK_IMAGE_LAYOUT_COLOR_ATTACHMENT_OPTIMAL"
    ELSE "VK_IMAGE_LAYOUT_GENERAL"

\* VkImageLayout D3D9ViewSet::GetRTLayout() const
GetRTLayout(views) ==
  IF /\ views.FaceRenderTarget[0].Color # NullView
     /\ imageInfo(views.FaceRenderTarget[0].Color).tiling = "VK_IMAGE_TILING_OPTIMAL"
    THEN "VK_IMAGE_LAYOUT_COLOR_ATTACHMENT_OPTIMAL"
    ELSE "VK_IMAGE_LAYOUT_GENERAL"

\* VkImageLayout D3D9ViewSet::GetDepthLayout() const
GetDepthLayout(views) ==
  IF /\ views.FaceDepth[0] # NullView
     /\ imageInfo(views.FaceDepth[0]).tiling = "VK_IMAGE_TILING_OPTIMAL"
    THEN "VK_IMAGE_LAYOUT_DEPTH_STENCIL_ATTACHMENT_OPTIMAL"
    ELSE "VK_IMAGE_LAYOUT_GENERAL"

\* ---------------------------------------------------------------- creation

Max(a, b) == IF a > b THEN a ELSE b

\* D3DMULTISAMPLE_TYPE
MultiSamples == { "D3DMULTISAMPLE_NONE", "D3DMULTISAMPLE_2_SAMPLES" }

\* variant: the top level is not counted
RECURSIVE computeMipLevelCount_NoBase(_)
computeMipLevelCount_NoBase(n) ==
  IF n <= 1 THEN 0 ELSE 1 + computeMipLevelCount_NoBase(n \div 2)

\* length of the full mip chain of a resource whose largest dimension is n:
\* the levels are halved until the level of size 1 is reached
RECURSIVE computeMipLevelCount(_)
computeMipLevelCount(n) ==
  IF n <= 1 THEN 1 ELSE 1 + computeMipLevelCount(n \div 2)

\* the description with the automatic mip count (0) replaced by the full chain
FillMipLevels(desc) ==
  IF desc.MipLevels = 0
    THEN [ desc EXCEPT !.MipLevels =
             computeMipLevelCount(Max(desc.Width, Max(desc.Height, desc.Depth))) ]
    ELSE desc

\* variant: a multisampled description is given one mip level, not rejected
NormalizeTextureProperties_Clamp(pDesc) ==
  LET filled == FillMipLevels(pDesc) IN
    IF pDesc.Depth > 1 /\ pDesc.ArraySize # 1
      THEN [ hr |-> "D3DERR_INVALIDCALL", desc |-> pDesc ]
      ELSE [ hr |-> "S_OK",
             desc |-> IF pDesc.MultiSample # "D3DMULTISAMPLE_NONE"
                        THEN [ filled EXCEPT !.MipLevels = 1 ] ELSE filled ]

\* static HRESULT NormalizeTextureProperties(D3D9_COMMON_TEXTURE_DESC* pDesc):
\* the automatic mip count is filled with the full chain; multisampling with
\* more than one mip level, and an array size the kind of the resource cannot
\* have (a volume, the kind with a depth, has no array layers), are rejected.
\* A rejected description is returned as it was passed.
NormalizeTextureProperties(pDesc) ==
  LET filled == FillMipLevels(pDesc) IN
    IF \/ pDesc.MultiSample # "D3DMULTISAMPLE_NONE" /\ filled.MipLevels > 1
       \/ pDesc.Depth > 1 /\ pDesc.ArraySize # 1
      THEN [ hr |-> "D3DERR_INVALIDCALL", desc |-> pDesc ]
      ELSE [ hr |-> "S_OK", desc |-> filled ]

\* BOOL CheckImageSupport(pImageInfo, Tiling): whether the device supports
\* the image with that tiling; supported is the set of tilings it does
CheckImageSupport(supported, Tiling) == Tiling \in supported

\* variant: linear tiling is tried first
ChooseTiling_LinearFirst(supported) ==
  IF CheckImageSupport(supported, "VK_IMAGE_TILING_LINEAR")
    THEN "VK_IMAGE_TILING_LINEAR"
    ELSE IF CheckImageSupport(supported, "VK_IMAGE_TILING_OPTIMAL")
      THEN "VK_IMAGE_TILING_OPTIMAL"
      ELSE NoTiling

\* the tiling CreatePrimaryImage gives the image: optimal if supported,
\* else linear if supported, else none (the creation throws)
ChooseTiling(supported) ==
  IF CheckImageSupport(supported, "VK_IMAGE_TILING_OPTIMAL")
    THEN "VK_IMAGE_TILING_OPTIMAL"
    ELSE IF CheckImageSupport(supported, "VK_IMAGE_TILING_LINEAR")
      THEN "VK_IMAGE_TILING_LINEAR"
      ELSE NoTiling

\* descriptions a resource is requested with: every geometry for one format,
\* pool and device, and every format, pool, usage and device for one geometry
GeometryDescs ==
  [ Width : (1..MaxExtent) \cup { 256 }, Height : (1..MaxExtent) \cup { 256 },
    Depth : 1..MaxDepth, ArraySize : 1..MaxArraySize,
    MipLevels : (0..MaxMipLevels) \cup { 4 },
    Usage : { {} }, Format : { "A8R8G8B8" }, Pool : { "D3DPOOL_DEFAULT" },
    MultiSample : MultiSamples ]

BackingDescs ==
  [ Width : { 2 }, Height : { 2 }, Depth : { 1 },
    ArraySize : 1..MaxArraySize, MipLevels : { 1 },
    Usage : Usages, Format : Formats, Pool : Pools,
    MultiSample : { "D3DMULTISAMPLE_NONE" } ]

Requests ==
  [ desc : GeometryDescs, supported : { Tilings } ]
    \cup [ desc : BackingDescs, supported : SUBSET Tilings ]

\* no resource object exists
NoResource == Members([ Format |-> "NULL_FORMAT", Pool |-> "D3DPOOL_SCRATCH" ], Null)

\* a creation is requested, nothing is created yet
InitCreate ==
  /\ request \in Requests
  /\ hr = "PENDING"
  /\ imageTiling = NoTiling
  /\ Constructed(NoResource.desc, Null)
  /\ lastCall = Call("none", FALSE, Null)
  /\ createdSince = [ i \in Slots |-> FALSE ]
  /\ allocCount = [ i \in Slots |-> 0 ]
  /\ resolveBuilds = 0
  /\ firstResolve = Null
  /\ NoCallers
  /\ HudRenderer

\* the creation of a texture resource: the description is normalized, and a
\* rejected one creates nothing; the constructor fixes the mapping mode,
\* builds the image unless the resource lives in system memory only, and
\* builds the initial views; an image no tiling supports fails the creation
CreateTexture ==
  /\ hr = "PENDING"
  /\ LET n == NormalizeTextureProperties(request.desc)
         needsImage == DetermineMapMode(n.desc) # D3D9_COMMON_TEXTURE_MAP_MODE_SYSTEMMEM
         tiling == IF needsImage THEN ChooseTiling(request.supported) ELSE NoTiling
         m == Members(n.desc, IF needsImage THEN CreatePrimaryImage ELSE Null)
     IN
       IF n.hr # "S_OK"
         THEN /\ hr' = n.hr
              /\ UNCHANGED << m_desc, m_mapMode, m_image, m_resolveImage, m_buffers,
                              m_fixupBuffers, m_lockFlags, m_views, imageTiling,
                              lastCall >>
         ELSE IF needsImage /\ tiling = NoTiling
           THEN /\ hr' = "DxvkError"
                /\ UNCHANGED << m_desc, m_mapMode, m_image, m_resolveImage, m_buffers,
                                m_fixupBuffers, m_lockFlags, m_views, imageTiling,
                                lastCall >>
           ELSE /\ hr' = "S_OK"
                /\ m_desc' = m.desc
                /\ m_mapMode' = m.mapMode
                /\ m_image' = m.image
                /\ m_resolveImage' = m.resolveImage
                /\ m_buffers' = m.buffers
                /\ m_fixupBuffers' = m.fixupBuffers
                /\ m_lockFlags' = m.lockFlags
                /\ m_views' = m.views
                /\ imageTiling' = tiling
                /\ lastCall' = Call("Construct", FALSE, Null)
  /\ UNCHANGED << request, createdSince, allocCount, resolveBuilds, firstResolve >>
  /\ UNCHANGED << callerVars, hudVars >>

NextCreate == CreateTexture

SpecCreate == InitCreate /\ [][NextCreate]_vars

\* ------------------------------- GetResolveImage without synchronization
\*
\* Rc<DxvkImage> GetResolveImage() {
\*   if (unlikely(m_resolveImage == nullptr))
\*     m_resolveImage = CreateResolveImage();
\*   return m_resolveImage;
\* }
\*
\* The function takes no lock and m_resolveImage is a plain Rc<>, so two
\* callers on two threads race on it: every interleaving of their reads and
\* writes of m_resolveImage is an outcome.

\* CreateResolveImage() when several callers may be building: a handle that
\* neither the resource nor another caller holds
CreateResolveImageFor(t) ==
  LET held == { m_image, m_resolveImage, firstResolve }
                \cup { callers[u].image : u \in Callers }
      unused == Images \ held
  IN  { h \in unused : \A g \in unused : h <= g }

Inside(t) == callers[t].pc # "outside"

\* variant: the cached image is not tested
TestResolveImage_NoCache(t) ==
  /\ callers[t].pc = "outside"
  /\ callers' = [ callers EXCEPT ![t] = [ pc |-> "create", image |-> Null, ret |-> Null ] ]
  /\ overlapped' = (overlapped \/ \E u \in Callers \ { t } : Inside(u))
  /\ UNCHANGED << m_desc, m_mapMode, m_image, m_resolveImage, m_buffers,
                  m_fixupBuffers, m_lockFlags, m_views, lastCall, createdSince,
                  allocCount, resolveBuilds, firstResolve >>
  /\ UNCHANGED << creationVars, hudVars >>

\* if (unlikely(m_resolveImage == nullptr)): the caller enters and reads the cache
TestResolveImage(t) ==
  /\ callers[t].pc = "outside"
  /\ callers' = [ callers EXCEPT ![t] =
                    [ pc    |-> IF m_resolveImage = Null THEN "create" ELSE "return",
                      image |-> Null,
                      ret   |-> Null ] ]
  /\ overlapped' = (overlapped \/ \E u \in Callers \ { t } : Inside(u))
  /\ UNCHANGED << m_desc, m_mapMode, m_image, m_resolveImage, m_buffers,
                  m_fixupBuffers, m_lockFlags, m_views, lastCall, createdSince,
                  allocCount, resolveBuilds, firstResolve >>
  /\ UNCHANGED << creationVars, hudVars >>

\* CreateResolveImage(): the right-hand side of the assignment
BuildResolveImage(t) ==
  /\ callers[t].pc = "create"
  /\ \E built \in CreateResolveImageFor(t) :
       callers' = [ callers EXCEPT ![t].pc = "assign", ![t].image = built ]
  /\ resolveBuilds' = Bump(resolveBuilds)
  /\ UNCHANGED << m_desc, m_mapMode, m_image, m_resolveImage, m_buffers,
                  m_fixupBuffers, m_lockFlags, m_views, lastCall, createdSince,
                  allocCount, firstResolve, overlapped >>
  /\ UNCHANGED << creationVars, hudVars >>

\* m_resolveImage = ...: the caller stores the image it built
AssignResolveImage(t) ==
  /\ callers[t].pc = "assign"
  /\ m_resolveImage' = callers[t].image
  /\ callers' = [ callers EXCEPT ![t].pc = "return" ]
  /\ UNCHANGED << m_desc, m_mapMode, m_image, m_buffers, m_fixupBuffers,
                  m_lockFlags, m_views, lastCall, createdSince, allocCount,
                  resolveBuilds, firstResolve, overlapped >>
  /\ UNCHANGED << creationVars, hudVars >>

\* return m_resolveImage: the caller reads the cache again and leaves
ReturnResolveImage(t) ==
  /\ callers[t].pc = "return"
  /\ callers' = [ callers EXCEPT ![t].pc = "outside", ![t].ret = m_resolveImage ]
  /\ firstResolve' = IF firstResolve = Null THEN m_resolveImage ELSE firstResolve
  /\ lastCall' = Call("GetResolveImage", callers[t].image # Null, m_resolveImage)
  /\ UNCHANGED << m_desc, m_mapMode, m_image, m_resolveImage, m_buffers,
                  m_fixupBuffers, m_lockFlags, m_views, createdSince, allocCount,
                  resolveBuilds, overlapped >>
  /\ UNCHANGED << creationVars, hudVars >>

\* a resource with an image, and nobody inside GetResolveImage yet
InitResolve ==
  /\ Init
  /\ m_image # Null

NextResolve ==
  \/ \E t \in Callers : TestResolveImage(t)
  \/ \E t \in Callers : BuildResolveImage(t)
  \/ \E t \in Callers : AssignResolveImage(t)
  \/ \E t \in Callers : ReturnResolveImage(t)

SpecResolve == InitResolve /\ [][NextResolve]_vars

\* ------------------------------------------------------------ HudRenderer

\* info.size = 1 << 16 in createVertexBuffer
VertexBufferSize == 65536

\* allocVertexBuffer: dataSize = align(dataSize, 64)
VertexAlignment == 64

\* sizeof(HudTextVertex): HudPos position (R32G32_SFLOAT), HudTexCoord texcoord (R32G32_UINT)
SizeofHudTextVertex == 16

\* sizeof(HudLineVertex): HudPos position (R32G32_SFLOAT), HudNormColor color (R8G8B8A8_UNORM)
SizeofHudLineVertex == 12

\* the lengths of the strings drawText is called with: the empty string, and
\* strings that fill a quarter, half and all of the vertex buffer
TextLengths == { 0, 171, 341, 682 }

\* the vertex counts drawLines is called with
LineCounts == { 1366, 2731, 5461 }

\* the surface sizes beginFrame is called with
SurfaceSizes == { << 1, 1 >>, << 2, 1 >> }

\* align(what, to): what rounded up to a multiple of to
align(what, to) == ((what + to - 1) \div to) * to

NoBinding == [ slice |-> NoSlice, stride |-> 0 ]

\* a context nothing is bound on
FreshContext ==
  [ shaders |-> "none", iaState |-> "none", inputLayout |-> "none",
    vertexBuffer |-> NoBinding, fontBound |-> FALSE ]

\* the contexts beginFrame is called with: a fresh one, and one on which an
\* earlier user left its own, the text or the line pipeline state
ContextStates ==
  { [ FreshContext EXCEPT !.shaders = k, !.inputLayout = k ] :
      k \in { "none", "other", "text", "lines" } }

\* the renderer's members and what the current call has recorded so far
HudState ==
  [ mode         |-> m_mode,
    vertexOffset |-> m_vertexOffset,
    context      |-> m_context,
    slices       |-> slices,
    slice        |-> NoSlice,
    commands     |-> << >> ]

\* variant: the shaders and the input layout are bound at every call
beginTextRendering_Always(st) ==
  [ st EXCEPT !.mode = "RenderText",
              !.context.shaders = "text",
              !.context.iaState = "VK_PRIMITIVE_TOPOLOGY_TRIANGLE_LIST",
              !.context.inputLayout = "text",
              !.commands = @ \o << "bindShader", "bindShader",
                                   "setInputAssemblyState", "setInputLayout" >> ]

\* void HudRenderer::beginTextRendering()
beginTextRendering(st) ==
  IF st.mode # "RenderText"
    THEN [ st EXCEPT !.mode = "RenderText",
                     !.context.shaders = "text",
                     !.context.iaState = "VK_PRIMITIVE_TOPOLOGY_TRIANGLE_LIST",
                     !.context.inputLayout = "text",
                     !.commands = @ \o << "bindShader", "bindShader",
                                          "setInputAssemblyState", "setInputLayout" >> ]
    ELSE st

\* void HudRenderer::beginLineRendering()
beginLineRendering(st) ==
  IF st.mode # "RenderLines"
    THEN [ st EXCEPT !.mode = "RenderLines",
                     !.context.shaders = "lines",
                     !.context.iaState = "VK_PRIMITIVE_TOPOLOGY_LINE_LIST",
                     !.context.inputLayout = "lines",
                     !.commands = @ \o << "bindShader", "bindShader",
                                          "setInputAssemblyState", "setInputLayout" >> ]
    ELSE st

\* variant: a request that does not fit invalidates the buffer but the
\* offset is not reset
allocVertexBuffer_NoReset(st, dataSize) ==
  LET aligned    == align(dataSize, VertexAlignment)
      invalidate == st.vertexOffset + aligned > VertexBufferSize
      slice      == [ offset |-> st.vertexOffset, length |-> aligned ]
  IN  [ st EXCEPT
          !.commands     = IF invalidate THEN @ \o << "invalidateBuffer" >> ELSE @,
          !.slices       = (IF invalidate THEN {} ELSE @) \cup { slice },
          !.slice        = slice,
          !.vertexOffset = st.vertexOffset + aligned ]

\* DxvkBufferSlice HudRenderer::allocVertexBuffer(VkDeviceSize dataSize)
allocVertexBuffer(st, dataSize) ==
  LET aligned    == align(dataSize, VertexAlignment)
      invalidate == st.vertexOffset + aligned > VertexBufferSize
      offset     == IF invalidate THEN 0 ELSE st.vertexOffset
      slice      == [ offset |-> offset, length |-> aligned ]
  IN  [ st EXCEPT
          !.commands     = IF invalidate THEN @ \o << "invalidateBuffer" >> ELSE @,
          !.slices       = (IF invalidate THEN {} ELSE @) \cup { slice },
          !.slice        = slice,
          !.vertexOffset = offset + aligned ]

\* m_context->bindVertexBuffer(0, vertexSlice, stride)
bindVertexBuffer(st, stride) ==
  [ st EXCEPT !.context.vertexBuffer = [ slice |-> st.slice, stride |-> stride ],
              !.commands = @ \o << "bindVertexBuffer" >> ]

\* the members after a call, and the record of the call
SetHudState(st, op, dataSize) ==
  /\ m_mode' = st.mode
  /\ m_vertexOffset' = st.vertexOffset
  /\ m_context' = st.context
  /\ slices' = st.slices
  /\ lastDraw' = HudCall(op, dataSize, m_vertexOffset, st.slice, st.commands)

\* void HudRenderer::beginFrame(const Rc<DxvkContext>& context, VkExtent2D surfaceSize)
beginFrame ==
  /\ \E context \in ContextStates \cup ({ m_context } \ { NoContext }) :
       m_context' = [ context EXCEPT !.fontBound = TRUE ]
  /\ \E surfaceSize \in SurfaceSizes : m_surfaceSize' = surfaceSize
  /\ m_mode' = "RenderNone"
  /\ slices' = {}
  /\ lastDraw' = HudCall("beginFrame", 0, m_vertexOffset, NoSlice,
                         << "invalidateBuffer", "bindResourceSampler",
                            "bindResourceView" >>)
  /\ UNCHANGED m_vertexOffset
  /\ UNCHANGED << textureVars, creationVars, callerVars >>

\* void HudRenderer::drawText(float size, HudPos pos, HudColor color, const std::string& text)
drawText ==
  /\ m_context # NoContext
  /\ \E length \in TextLengths :
       LET vertexCount == 6 * length
           dataSize    == vertexCount * SizeofHudTextVertex
           began       == beginTextRendering(HudState)
           allocated   == allocVertexBuffer(began, dataSize)
           bound       == bindVertexBuffer(allocated, SizeofHudTextVertex)
           drawn       == [ bound EXCEPT !.commands = @ \o << "pushConstants", "draw" >> ]
       IN  SetHudState(drawn, "drawText", dataSize)
  /\ UNCHANGED m_surfaceSize
  /\ UNCHANGED << textureVars, creationVars, callerVars >>

\* void HudRenderer::drawLines(size_t vertexCount, const HudLineVertex* vertexData)
drawLines ==
  /\ m_context # NoContext
  /\ \E vertexCount \in LineCounts :
       LET dataSize  == vertexCount * SizeofHudLineVertex
           began     == beginLineRendering(HudState)
           allocated == allocVertexBuffer(began, dataSize)
           bound     == bindVertexBuffer(allocated, SizeofHudLineVertex)
           drawn     == [ bound EXCEPT !.commands = @ \o << "draw" >> ]
       IN  SetHudState(drawn, "drawLines", dataSize)
  /\ UNCHANGED m_surfaceSize
  /\ UNCHANGED << textureVars, creationVars, callerVars >>

\* a renderer just constructed; no texture resource takes part
InitHud ==
  /\ HudRenderer
  /\ NoCallers
  /\ request = NoRequest
  /\ hr = "S_OK"
  /\ imageTiling = NoTiling
  /\ Constructed(NoResource.desc, Null)
  /\ lastCall = Call("none", FALSE, Null)
  /\ createdSince = [ i \in Slots |-> FALSE ]
  /\ allocCount = [ i \in Slots |-> 0 ]
  /\ resolveBuilds = 0
  /\ firstResolve = Null

NextHud ==
  \/ beginFrame
  \/ drawText
  \/ drawLines

SpecHud == InitHud /\ [][NextHud]_vars

\* ----------------------------------------------------------------- claims

Faces == 0..(m_desc.ArraySize - 1)

MipLevels == 0..(m_desc.MipLevels - 1)

SystemPools == { "D3DPOOL_SYSTEMMEM", "D3DPOOL_SCRATCH" }

MappingBuffer(i) == GetMappingBuffer(m_buffers, i)

CopyBuffer(i) == GetCopyBuffer(m_desc, m_buffers, m_fixupBuffers, i)

\* C1: DetermineMapMode yields exactly one of the three modes for every
\* (format, pool), depends on nothing but (format, pool), yields NONE for
\* NULL_FORMAT, SYSTEMMEM for any other format in pool SYSTEMMEM or SCRATCH,
\* and BACKED for every other combination.
C1_MapModeSelection ==
  /\ DetermineMapMode(m_desc) \in MapModes
  /\ \A d \in Descs :
       (d.Format = m_desc.Format /\ d.Pool = m_desc.Pool)
         => DetermineMapMode(d) = DetermineMapMode(m_desc)
  /\ m_desc.Format = "NULL_FORMAT"
       => DetermineMapMode(m_desc) = D3D9_COMMON_TEXTURE_MAP_MODE_NONE
  /\ (m_desc.Format # "NULL_FORMAT" /\ m_desc.Pool \in SystemPools)
       => DetermineMapMode(m_desc) = D3D9_COMMON_TEXTURE_MAP_MODE_SYSTEMMEM
  /\ (m_desc.Format # "NULL_FORMAT" /\ m_desc.Pool \notin SystemPools)
       => DetermineMapMode(m_desc) = D3D9_COMMON_TEXTURE_MAP_MODE_BACKED

C1_Witness ==
  /\ m_desc.Format = "R8G8B8"
  /\ m_desc.Pool = "D3DPOOL_SCRATCH"
  /\ m_mapMode = D3D9_COMMON_TEXTURE_MAP_MODE_SYSTEMMEM
  /\ m_desc.ArraySize * m_desc.MipLevels > 1

\* C2 as stated: a resource in pool SYSTEMMEM or SCRATCH has mapping mode
\* SYSTEMMEM whatever its format, NULL_FORMAT included.
C2_Original ==
  m_desc.Pool \in SystemPools
    => m_mapMode = D3D9_COMMON_TEXTURE_MAP_MODE_SYSTEMMEM

\* C2 amended: a resource in pool SYSTEMMEM or SCRATCH has mapping mode
\* SYSTEMMEM for every format but NULL_FORMAT, and mode NONE for NULL_FORMAT.
C2_SystemPools ==
  m_desc.Pool \in SystemPools
    => m_mapMode = (IF m_desc.Format = "NULL_FORMAT"
                      THEN D3D9_COMMON_TEXTURE_MAP_MODE_NONE
                      ELSE D3D9_COMMON_TEXTURE_MAP_MODE_SYSTEMMEM)

C2_Witness ==
  /\ m_desc.Pool = "D3DPOOL_SYSTEMMEM"
  /\ m_desc.Format = "NULL_FORMAT"
  /\ m_mapMode = D3D9_COMMON_TEXTURE_MAP_MODE_NONE

\* C3 as stated: in every state and for every subresource i, RequiresFixup()
\* is true exactly when GetCopyBuffer(i) and GetMappingBuffer(i) differ.
C3_Original ==
  \A i \in Subresources(m_desc) :
    RequiresFixup(m_desc) <=> (CopyBuffer(i) # MappingBuffer(i))

\* C3 amended: for every subresource i, GetCopyBuffer(i) and
\* GetMappingBuffer(i) differ exactly when RequiresFixup() is true and the
\* buffers of i exist; without buffers both are null, and without fixup both
\* are the mapping buffer.
C3_FixupIffDistinct ==
  \A i \in Subresources(m_desc) :
    /\ (CopyBuffer(i) # MappingBuffer(i))
         <=> (RequiresFixup(m_desc) /\ MappingBuffer(i) # Null)
    /\ MappingBuffer(i) = Null => CopyBuffer(i) = Null

C3_Witness ==
  /\ RequiresFixup(m_desc)
  /\ \E i, j \in Subresources(m_desc) :
       /\ MappingBuffer(i) # Null
       /\ CopyBuffer(i) # MappingBuffer(i)
       /\ MappingBuffer(j) = Null
       /\ lastCall.op = "DestroyBufferSubresource"

\* C4: a CreateBufferSubresource(i) call that follows an earlier call for i
\* with no DestroyBufferSubresource(i) in between reports no allocation,
\* leaves the allocations of i since the last destroy at exactly one, and
\* leaves GetMappingBuffer(i) and GetCopyBuffer(i) as they were.
C4_CreateIdempotent ==
  [][ \A i \in Subresources(m_desc) :
        (createdSince[i] /\ CreateBufferSubresource(i))
          => /\ lastCall'.allocated = FALSE
             /\ allocCount'[i] = 1
             /\ GetMappingBuffer(m_buffers', i) = MappingBuffer(i)
             /\ GetCopyBuffer(m_desc', m_buffers', m_fixupBuffers', i) = CopyBuffer(i)
             /\ MappingBuffer(i) # Null ]_vars

C4_Witness ==
  /\ lastCall.op = "CreateBufferSubresource"
  /\ lastCall.allocated = FALSE
  /\ \E i \in Subresources(m_desc) :
       createdSince[i] /\ allocCount[i] = 1 /\ MappingBuffer(i) # Null

\* C5: the resolve image is constructed at most once, and every
\* GetResolveImage() call returns the non-null handle the first call
\* returned, whatever operations ran in between.
C5_ResolveMemoized ==
  /\ resolveBuilds <= 1
  /\ lastCall.op = "GetResolveImage"
       => /\ lastCall.handle # Null
          /\ lastCall.handle = firstResolve
          /\ lastCall.handle = m_resolveImage
  /\ firstResolve # Null => m_resolveImage = firstResolve

C5_Witness ==
  /\ lastCall.op = "GetResolveImage"
  /\ lastCall.allocated = FALSE
  /\ lastCall.handle = firstResolve
  /\ resolveBuilds = 1
  /\ \E i \in Subresources(m_desc) : MappingBuffer(i) # Null /\ m_lockFlags[i] # 0
  /\ m_views.Sample.Color.Lod # 0

\* C6: CalcSubresource maps the (face, mip) pairs of the resource one to one
\* onto [0, CountSubresources()), and index / MipLevels and index % MipLevels
\* give back the face and the mip.
C6_CalcSubresourceBijection ==
  /\ \A f \in Faces, m \in MipLevels :
       LET s == CalcSubresource(m_desc, f, m) IN
         /\ s \in Subresources(m_desc)
         /\ GetSubresourceFromIndex(m_desc, s).arrayLayer = f
         /\ GetSubresourceFromIndex(m_desc, s).mipLevel = m
         /\ MipLevelOf(m_desc, s) = m
  /\ \A s \in Subresources(m_desc) :
       Cardinality({ p \in Faces \X MipLevels :
                      CalcSubresource(m_desc, p[1], p[2]) = s }) = 1
  /\ Cardinality(Subresources(m_desc)) = m_desc.ArraySize * m_desc.MipLevels

C6_Witness ==
  /\ m_desc.ArraySize = 2
  /\ m_desc.MipLevels = 2
  /\ CalcSubresource(m_desc, 1, 1) = 3
  /\ CalcSubresource(m_desc, 1, 0) = 2

C8_DestroyFrame ==
  [][ \A i \in Subresources(m_desc) :
        DestroyBufferSubresource(i)
          => /\ GetMappingBuffer(m_buffers', i) = Null
             /\ GetCopyBuffer(m_desc', m_buffers', m_fixupBuffers', i) = Null
             /\ m_fixupBuffers'[i] = Null
             /\ \A j \in Slots \ { i } :
                  /\ m_buffers'[j] = m_buffers[j]
                  /\ m_fixupBuffers'[j] = m_fixupBuffers[j]
             /\ UNCHANGED << m_lockFlags, m_image, m_resolveImage, m_views,
                             m_mapMode, m_desc >> ]_vars

C8_Witness ==
  /\ lastCall.op = "DestroyBufferSubresource"
  /\ RequiresFixup(m_desc)
  /\ m_resolveImage # Null
  /\ \E i, j \in Subresources(m_desc) :
       /\ m_buffers[i] = Null /\ m_fixupBuffers[i] = Null
       /\ m_buffers[j] # Null /\ m_fixupBuffers[j] # Null
       /\ m_lockFlags[i] # 0

\* C9: after CreateBuffers() the mapping buffers are exactly those of the
\* indices below CountSubresources() = ArraySize * MipLevels, and the fixup
\* buffers are those same indices when the format requires fixup and none
\* otherwise, whichever buffers existed before the call.
C9_CreateBuffersCounts ==
  lastCall.op = "CreateBuffers"
    => /\ { i \in Slots : m_buffers[i] # Null } = Subresources(m_desc)
       /\ Cardinality({ i \in Slots : m_buffers[i] # Null })
            = m_desc.ArraySize * m_desc.MipLevels
       /\ { i \in Slots : m_fixupBuffers[i] # Null }
            = (IF RequiresFixup(m_desc) THEN Subresources(m_desc) ELSE {})
       /\ Cardinality({ i \in Slots : m_fixupBuffers[i] # Null })
            = (IF RequiresFixup(m_desc)
                 THEN m_desc.ArraySize * m_desc.MipLevels ELSE 0)

C9_Witness ==
  /\ lastCall.op = "CreateBuffers"
  /\ m_desc.ArraySize = 2
  /\ m_desc.MipLevels = 2
  /\ m_mapMode = D3D9_COMMON_TEXTURE_MAP_MODE_BACKED
  /\ ~RequiresFixup(m_desc)
  /\ Cardinality({ i \in Slots : m_buffers[i] # Null }) = 4
  /\ Cardinality({ i \in Slots : m_fixupBuffers[i] # Null }) = 0

\* C10: RequiresFixup() is true exactly for R8G8B8; for any other format
\* GetCopyBuffer(i) is GetMappingBuffer(i) for every i; for R8G8B8 a
\* subresource created and not destroyed since has a mapping buffer and a
\* different fixup buffer, returned by GetMappingBuffer and GetCopyBuffer.
C10_FixupFormat ==
  /\ RequiresFixup(m_desc) <=> (m_desc.Format = "R8G8B8")
  /\ m_desc.Format # "R8G8B8"
       => \A i \in Subresources(m_desc) : CopyBuffer(i) = MappingBuffer(i)
  /\ m_desc.Format = "R8G8B8"
       => \A i \in Subresources(m_desc) :
            createdSince[i]
              => /\ m_buffers[i] # Null
                 /\ m_fixupBuffers[i] # Null
                 /\ m_fixupBuffers[i] # m_buffers[i]
                 /\ CopyBuffer(i) = m_fixupBuffers[i]
                 /\ MappingBuffer(i) = m_buffers[i]

C10_Witness ==
  /\ m_desc.Format = "R8G8B8"
  /\ lastCall.op = "CreateBufferSubresource"
  /\ lastCall.allocated
  /\ \E i \in Subresources(m_desc) :
       createdSince[i] /\ CopyBuffer(i) # MappingBuffer(i) /\ CopyBuffer(i) # Null

\* C11: the mapping mode is fixed at construction: whatever operation is
\* performed on the resource, GetMapMode() returns after it what it returned
\* before it, and that value is the one DetermineMapMode yields for the
\* format and the pool of the resource.
C11_MapModeFixed ==
  /\ [](GetMapMode = DetermineMapMode(m_desc))
  /\ [][GetMapMode' = GetMapMode /\ m_desc' = m_desc]_vars

\* a resource without mapping storage after buffers were created, lock flags
\* set, the resolve image built and the sample view rebuilt
C11_Witness ==
  /\ GetMapMode = D3D9_COMMON_TEXTURE_MAP_MODE_NONE
  /\ \E i \in Subresources(m_desc) : MappingBuffer(i) # Null
  /\ \E i \in Subresources(m_desc) : m_lockFlags[i] # 0
  /\ m_resolveImage # Null
  /\ lastCall.op = "RecreateSampledView"

\* C12: when the construction of the resolve image fails inside
\* GetResolveImage(), the primary image, the buffers, the lock flags, the
\* views, the mapping mode and the (absent) resolve image are what they were
\* before the call, and a following GetResolveImage() can build the image.
C12_ResolveFailureLocal ==
  /\ [][GetResolveImageThrows =>
          /\ UNCHANGED << m_desc, m_mapMode, m_image, m_resolveImage, m_buffers,
                          m_fixupBuffers, m_lockFlags, m_views >>
          /\ m_resolveImage' = Null]_vars
  /\ [][(lastCall.op = "GetResolveImageThrows" /\ GetResolveImage) =>
          /\ lastCall'.allocated
          /\ m_resolveImage' # Null
          /\ m_resolveImage' # m_image]_vars
  /\ [](lastCall.op = "GetResolveImageThrows" =>
          /\ m_resolveImage = Null
          /\ CreateResolveImage # {}
          /\ ENABLED GetResolveImage)

\* the construction failed on a resource that holds buffers and lock flags
C12_Witness ==
  /\ lastCall.op = "GetResolveImageThrows"
  /\ \E i \in Subresources(m_desc) : MappingBuffer(i) # Null
  /\ \E i \in Subresources(m_desc) : m_lockFlags[i] # 0
  /\ m_views.Sample.Color.Lod = 1

\* the largest dimension of the requested description
MaxDimension == Max(request.desc.Width, Max(request.desc.Height, request.desc.Depth))

\* k = floor(log2(n)) + 1
IsFloorLog2Plus1(k, n) == k >= 1 /\ 2 ^ (k - 1) <= n /\ n < 2 ^ k

Multisampled == request.desc.MultiSample # "D3DMULTISAMPLE_NONE"

\* the requested description combines multisampling with more than one mip
\* level, asked for by number or as the full chain of a resource larger than 1
MultisampledMips ==
  /\ Multisampled
  /\ \/ request.desc.MipLevels > 1
     \/ request.desc.MipLevels = 0 /\ MaxDimension > 1

\* the requested array size is one the kind of the resource cannot have
ArraySizeMismatch == request.desc.Depth > 1 /\ request.desc.ArraySize # 1

\* the normalizer accepted the description: the mip count of the created
\* resource is at least 1 and is the full chain if that was asked for
NormalizedMipCount ==
  /\ hr # "D3DERR_INVALIDCALL"
  /\ m_desc.MipLevels >= 1
  /\ request.desc.MipLevels = 0 => IsFloorLog2Plus1(m_desc.MipLevels, MaxDimension)
  /\ request.desc.MipLevels # 0 => m_desc.MipLevels = request.desc.MipLevels

ImageAsked ==
  /\ hr \in { "S_OK", "DxvkError" }
  /\ DetermineMapMode(request.desc) # D3D9_COMMON_TEXTURE_MAP_MODE_SYSTEMMEM

\* C15: the image gets optimal tiling whenever the device supports it, linear
\* tiling only when optimal is unsupported and linear is supported, and when
\* neither is supported the creation fails with an error and creates
\* nothing; an unsupported optimal tiling alone is no error.
C15_TilingPreference ==
  ImageAsked =>
    /\ "VK_IMAGE_TILING_OPTIMAL" \in request.supported =>
         hr = "S_OK" /\ m_image # Null /\ imageTiling = "VK_IMAGE_TILING_OPTIMAL"
    /\ request.supported = { "VK_IMAGE_TILING_LINEAR" } =>
         hr = "S_OK" /\ m_image # Null /\ imageTiling = "VK_IMAGE_TILING_LINEAR"
    /\ request.supported = {} =>
         hr = "DxvkError" /\ m_image = Null /\ m_views = NoViews
    /\ imageTiling = "VK_IMAGE_TILING_LINEAR" =>
         "VK_IMAGE_TILING_OPTIMAL" \notin request.supported

\* a render target was created with linear tiling on a device that supports
\* linear tiling only
C15_Witness ==
  /\ hr = "S_OK"
  /\ request.supported = { "VK_IMAGE_TILING_LINEAR" }
  /\ imageTiling = "VK_IMAGE_TILING_LINEAR"
  /\ "RENDERTARGET" \in m_desc.Usage

\* a dimension halved, rounding down and never below 1, once per level
RECURSIVE Halved(_, _)
Halved(size, level) ==
  IF level = 0 THEN size ELSE Halved(Max(1, size \div 2), level - 1)

\* C16: GetExtentMip(s) is the extent of mip level (s mod MipLevels) of
\* (Width, Height, Depth): every dimension halved, rounding down and never
\* below 1, once per level, whatever the face encoded in s; for a 256 x 256
\* texture GetExtentMip(2) is 64 x 64.
C16_ExtentMip ==
  hr = "S_OK" =>
    /\ \A face \in Faces, mip \in MipLevels :
         GetExtentMip(m_desc, CalcSubresource(m_desc, face, mip)) =
           [ width |-> Halved(m_desc.Width, mip),
             height |-> Halved(m_desc.Height, mip),
             depth |-> Halved(m_desc.Depth, mip) ]
    /\ \A s \in Subresources(m_desc) :
         /\ GetExtentMip(m_desc, s) = GetExtentMip(m_desc, s % m_desc.MipLevels)
         /\ GetExtentMip(m_desc, s).width >= 1
         /\ GetExtentMip(m_desc, s).height >= 1
         /\ GetExtentMip(m_desc, s).depth >= 1
    /\ (m_desc.Width = 256 /\ m_desc.Height = 256 /\ m_desc.MipLevels > 2) =>
         /\ GetExtentMip(m_desc, 2).width = 64
         /\ GetExtentMip(m_desc, 2).height = 64

\* a 256 x 256 texture with 4 mips and two faces: mip 2 of either face is
\* 64 x 64
C16_Witness ==
  /\ hr = "S_OK"
  /\ m_desc.Width = 256
  /\ m_desc.Height = 256
  /\ m_desc.Depth = 1
  /\ m_desc.MipLevels = 4
  /\ m_desc.ArraySize = 2
  /\ GetExtentMip(m_desc, 2) = [ width |-> 64, height |-> 64, depth |-> 1 ]
  /\ GetExtentMip(m_desc, 6) = [ width |-> 64, height |-> 64, depth |-> 1 ]

\* C17 as stated: RecreateSampledView(lod) on a resource whose pool is not
\* the managed one is not performed and leaves the cached views as they were.
C17_Original ==
  [][\A lod \in MipLevels :
       (RecreateSampledView(lod) /\ ~IsManaged(m_desc)) => m_views' = m_views]_vars

\* C17: RecreateSampledView(lod) does not test the pool: on a resource of
\* any pool that has a backing image it can be called for every lod below
\* the mip count, and the call leaves a sample view that starts at lod.
C17_NoPoolCheck ==
  /\ [](m_image # Null => \A lod \in MipLevels : ENABLED RecreateSampledView(lod))
  /\ [][\A lod \in MipLevels :
          RecreateSampledView(lod) =>
            /\ m_views'.Sample.Color.Lod = lod
            /\ m_views'.Sample.Srgb.Lod = lod]_vars

\* the sample view of a resource of the default pool was rebuilt at lod 1
C17_Witness ==
  /\ m_desc.Pool = "D3DPOOL_DEFAULT"
  /\ ~IsManaged(m_desc)
  /\ lastCall.op = "RecreateSampledView"
  /\ lastCall.view.Color.Lod = 0
  /\ m_views.Sample.Color.Lod = 1

\* the view RecreateSampledView(lod) is to leave in m_views.Sample: over
\* all layers of the image, for sampling, on the mip levels [lod, MipLevels)
SampleViewAt(lod, srgb) ==
  [ image |-> m_image, Layer |-> AllLayers, Usage |-> "SAMPLED",
    Lod |-> lod, NumLevels |-> Cardinality({ l \in MipLevels : l >= lod }),
    Srgb |-> srgb ]

\* C18: RecreateSampledView(lod) replaces m_views.Sample, colour and sRGB,
\* by views over all layers restricted to the mip levels [lod, MipLevels);
\* the per-face sample, render-target and depth views, the mip-generation
\* view, the image, the resolve image, the buffers and the lock flags are
\* unchanged, and the pair cached before the call is itself not modified.
C18_RecreateFrame ==
  [][\A lod \in MipLevels :
       RecreateSampledView(lod) =>
         /\ m_views'.Sample.Color = SampleViewAt(lod, FALSE)
         /\ m_views'.Sample.Srgb = SampleViewAt(lod, TRUE)
         /\ m_views'.FaceSample = m_views.FaceSample
         /\ m_views'.FaceRenderTarget = m_views.FaceRenderTarget
         /\ m_views'.FaceDepth = m_views.FaceDepth
         /\ m_views'.MipGenRT = m_views.MipGenRT
         /\ UNCHANGED << m_image, m_resolveImage, m_buffers, m_fixupBuffers,
                         m_lockFlags, m_mapMode, m_desc >>
         /\ lastCall'.view = m_views.Sample]_vars

\* the sample view of a render target with two faces was rebuilt at lod 1
\* while buffers, lock flags and the resolve image existed
C18_Witness ==
  /\ lastCall.op = "RecreateSampledView"
  /\ lastCall.view.Color.Lod = 0
  /\ m_views.Sample.Color.Lod = 1
  /\ m_views.Sample.Color.NumLevels = 1
  /\ m_desc.ArraySize = 2
  /\ m_views.FaceRenderTarget[1].Color # NullView
  /\ m_views.FaceSample[1].Color.Lod = 0
  /\ m_resolveImage # Null
  /\ \E i \in Subresources(m_desc) : MappingBuffer(i) # Null /\ m_lockFlags[i] # 0

\* the view set with every view but those of slot 0 removed
OnlySlot0(views) ==
  [ NoViews EXCEPT !.FaceRenderTarget[0] = views.FaceRenderTarget[0],
                   !.FaceDepth[0] = views.FaceDepth[0] ]

\* the view set with the views of slot 0 removed
WithoutSlot0(views) ==
  [ views EXCEPT !.FaceRenderTarget[0] = NoColorView,
                 !.FaceDepth[0] = NullView ]

\* C19: GetRTLayout() is the colour-attachment-optimal layout iff the face-0
\* render-target colour view exists and its image has optimal tiling, and
\* the general layout otherwise; GetDepthLayout() likewise with the face-0
\* depth view and the depth-stencil-attachment-optimal layout; a view set
\* without views gives the general layout for both, and no view other than
\* those of slot 0 has a part in the results.
C19_Layouts ==
  /\ GetRTLayout(m_views) =
       IF m_views.FaceRenderTarget[0].Color # NullView
            /\ imageTiling = "VK_IMAGE_TILING_OPTIMAL"
         THEN "VK_IMAGE_LAYOUT_COLOR_ATTACHMENT_OPTIMAL"
         ELSE "VK_IMAGE_LAYOUT_GENERAL"
  /\ GetDepthLayout(m_views) =
       IF m_views.FaceDepth[0] # NullView
            /\ imageTiling = "VK_IMAGE_TILING_OPTIMAL"
         THEN "VK_IMAGE_LAYOUT_DEPTH_STENCIL_ATTACHMENT_OPTIMAL"
         ELSE "VK_IMAGE_LAYOUT_GENERAL"
  /\ m_image = Null =>
       /\ m_views = NoViews
       /\ GetRTLayout(m_views) = "VK_IMAGE_LAYOUT_GENERAL"
       /\ GetDepthLayout(m_views) = "VK_IMAGE_LAYOUT_GENERAL"
  /\ GetRTLayout(OnlySlot0(m_views)) = GetRTLayout(m_views)
  /\ GetDepthLayout(OnlySlot0(m_views)) = GetDepthLayout(m_views)
  /\ GetRTLayout(WithoutSlot0(m_views)) = "VK_IMAGE_LAYOUT_GENERAL"
  /\ GetDepthLayout(WithoutSlot0(m_views)) = "VK_IMAGE_LAYOUT_GENERAL"

\* a render target with two faces whose image has linear tiling: the
\* render-target views exist and the layout is the general one
C19_Witness ==
  /\ hr = "S_OK"
  /\ imageTiling = "VK_IMAGE_TILING_LINEAR"
  /\ m_desc.ArraySize = 2
  /\ m_views.FaceRenderTarget[0].Color # NullView
  /\ m_views.FaceRenderTarget[1].Color # NullView
  /\ GetRTLayout(m_views) = "VK_IMAGE_LAYOUT_GENERAL"
  /\ GetDepthLayout(m_views) = "VK_IMAGE_LAYOUT_GENERAL"

\* C20: buffers can be cycled: a slot on which CreateBufferSubresource has
\* not been called since its DestroyBufferSubresource (or since
\* construction) holds no buffer, and CreateBufferSubresource on it then
\* allocates and returns true, whatever the other slots hold, leaving the
\* other slots as they were.
C20_BufferCycle ==
  /\ [](\A i \in Subresources(m_desc) : ~createdSince[i] => MappingBuffer(i) = Null)
  /\ [][\A i \in Subresources(m_desc) :
          (~createdSince[i] /\ CreateBufferSubresource(i)) =>
            /\ lastCall'.allocated
            /\ m_buffers'[i] # Null
            /\ allocCount'[i] = 1
            /\ \A j \in Subresources(m_desc) \ { i } :
                  /\ m_buffers'[j] = m_buffers[j]
                  /\ m_fixupBuffers'[j] = m_fixupBuffers[j]]_vars

\* DestroyBufferSubresource released the buffer of a slot and the call right
\* after it, CreateBufferSubresource on that slot, allocated it again, on a
\* resource of several subresources one of which holds no buffer
C20_Witness ==
  /\ lastCall.op = "CreateBufferSubresource"
  /\ lastCall.allocated
  /\ lastCall.handle # Null
  /\ \E i \in Subresources(m_desc) :
       MappingBuffer(i) = lastCall.handle /\ allocCount[i] = 1
  /\ \E j \in Subresources(m_desc) : MappingBuffer(j) = Null

\* C21: the resolve image is built at most once as long as the calls of
\* GetResolveImage are serialized, and then every caller receives the same
\* handle; only callers that have been inside the function at the same time
\* can each find the cache empty, build one image each and receive different
\* handles; no caller builds more than one image per call.
C21_ResolveRace ==
  /\ ~overlapped =>
       /\ resolveBuilds <= 1
       /\ \A t \in Callers : callers[t].ret \in { Null, firstResolve }
  /\ resolveBuilds = 2 => overlapped
  /\ \A t, u \in Callers :
       (callers[t].ret # Null /\ callers[u].ret # Null /\ callers[t].ret # callers[u].ret)
         => resolveBuilds = 2
  /\ \A t \in Callers :
       callers[t].pc \in { "create", "assign" } => m_image # Null

\* two callers ran concurrently on an empty cache: both built an image and
\* each left with a different handle
C21_Witness ==
  /\ overlapped
  /\ resolveBuilds = 2
  /\ \A t \in Callers : callers[t].pc = "outside" /\ callers[t].image # Null
  /\ callers[1].ret # Null
  /\ callers[2].ret # Null
  /\ callers[1].ret # callers[2].ret

\* C22: in every reachable state and for every slot, a fixup buffer exists
\* only together with a mapping buffer and only when the format requires
\* fixup; a slot holds the one mapping buffer and the one fixup buffer of its
\* last allocation and no more than one allocation was made for it since it
\* was last destroyed; a resource whose format needs no fixup holds no fixup
\* buffer after any sequence of create and destroy operations.
C22_FixupWithMapping ==
  /\ \A i \in Slots :
       /\ m_fixupBuffers[i] # Null
            => (m_buffers[i] # Null /\ RequiresFixup(m_desc))
       /\ m_buffers[i] \in { Null, createBuffer(i, FALSE) }
       /\ m_fixupBuffers[i] \in { Null, createBuffer(i, TRUE) }
       /\ allocCount[i] <= 1
  /\ ~RequiresFixup(m_desc) => \A i \in Slots : m_fixupBuffers[i] = Null

\* a fixup-format resource after a create/destroy sequence: one slot was just
\* released, another still holds its fixup buffer next to its mapping buffer
C22_Witness ==
  /\ RequiresFixup(m_desc)
  /\ lastCall.op = "DestroyBufferSubresource"
  /\ lastCall.handle # Null
  /\ \E i, j \in Subresources(m_desc) :
       /\ m_fixupBuffers[i] # Null
       /\ m_buffers[i] # Null
       /\ m_buffers[j] = Null
       /\ m_fixupBuffers[j] = Null

DrawCalls == { "drawText", "drawLines" }

\* the call recorded one of the given commands on the context
Recorded(call, names) ==
  \E k \in 1 .. Len(call.commands) : call.commands[k] \in names

Invalidated(call) == Recorded(call, { "invalidateBuffer" })

Disjoint(a, b) ==
  \/ a.offset + a.length <= b.offset
  \/ b.offset + b.length <= a.offset

\* C23: allocVertexBuffer, for requests whose aligned size is at most the
\* size of the vertex buffer: the slice it returns has the request's size
\* rounded up to a multiple of 64, starts at a multiple of 64 and ends within
\* the buffer; the buffer is invalidated exactly when the aligned request does
\* not fit behind the current offset, and then the slice starts at 0, else it
\* starts at the offset; the slices returned since the last invalidation are
\* pairwise disjoint and end at or before the offset.
C23_VertexSlices ==
  /\ lastDraw.op \in DrawCalls =>
       LET slice == lastDraw.slice IN
         /\ slice.length % VertexAlignment = 0
         /\ slice.length >= lastDraw.dataSize
         /\ slice.length < lastDraw.dataSize + VertexAlignment
         /\ slice.length <= VertexBufferSize =>
              /\ slice.offset % VertexAlignment = 0
              /\ slice.offset >= 0
              /\ slice.offset + slice.length <= VertexBufferSize
              /\ Invalidated(lastDraw)
                   <=> (lastDraw.before + slice.length > VertexBufferSize)
              /\ Invalidated(lastDraw) => (slice.offset = 0 /\ slices = { slice })
              /\ ~Invalidated(lastDraw) => slice.offset = lastDraw.before
              /\ m_vertexOffset = slice.offset + slice.length
              /\ slice \in slices
  /\ \A a \in slices : a.offset + a.length <= m_vertexOffset
  /\ \A a, b \in slices : a # b => Disjoint(a, b)

\* a request that had to be rounded up did not fit behind the slices already
\* handed out: the buffer was invalidated and the slice starts at 0
C23_Witness ==
  /\ lastDraw.op \in DrawCalls
  /\ lastDraw.dataSize % VertexAlignment # 0
  /\ lastDraw.before > 0
  /\ lastDraw.before + lastDraw.slice.length > VertexBufferSize
  /\ Invalidated(lastDraw)
  /\ lastDraw.slice.offset = 0
  /\ m_vertexOffset = lastDraw.slice.length

Binds(call) ==
  Recorded(call, { "bindShader", "setInputAssemblyState", "setInputLayout" })

\* C24: beginFrame leaves the mode at RenderNone, drawText at RenderText and
\* drawLines at RenderLines; after a draw the shaders, the topology, the input
\* layout and the vertex stride bound on the context are those of the draw's
\* kind; a draw binds shaders and input layout exactly when it finds the mode
\* different from its own, so a draw that follows a draw of the same kind
\* binds nothing.
C24_RenderModes ==
  /\ [](/\ lastDraw.op = "beginFrame" => m_mode = "RenderNone"
        /\ lastDraw.op = "drawText" =>
             /\ m_mode = "RenderText"
             /\ m_context.shaders = "text"
             /\ m_context.inputLayout = "text"
             /\ m_context.iaState = "VK_PRIMITIVE_TOPOLOGY_TRIANGLE_LIST"
             /\ m_context.vertexBuffer.stride = SizeofHudTextVertex
        /\ lastDraw.op = "drawLines" =>
             /\ m_mode = "RenderLines"
             /\ m_context.shaders = "lines"
             /\ m_context.inputLayout = "lines"
             /\ m_context.iaState = "VK_PRIMITIVE_TOPOLOGY_LINE_LIST"
             /\ m_context.vertexBuffer.stride = SizeofHudLineVertex)
  /\ [][/\ drawText => (Binds(lastDraw') <=> m_mode # "RenderText")
        /\ drawLines => (Binds(lastDraw') <=> m_mode # "RenderLines")
        /\ (lastDraw.op \in DrawCalls /\ lastDraw'.op = lastDraw.op)
             => ~Binds(lastDraw')
        /\ beginFrame => ~Binds(lastDraw')]_vars

\* a line draw that followed a line draw and bound nothing
C24_Witness ==
  /\ lastDraw.op = "drawLines"
  /\ ~Binds(lastDraw)
  /\ m_mode = "RenderLines"
  /\ m_context.shaders = "lines"
  /\ Cardinality(slices) >= 2

====
